---- MODULE Spec2Model ----
(***************************************************************************)
(* Model of src/index.ts: an Express server with four routes (GET /health, *)
(* POST /upload, GET /files, DELETE /files/:key) in front of one S3        *)
(* bucket.  Every handler is a linear sequence with at most one await      *)
(* (s3.send); the model has one action for each synchronous stretch of a   *)
(* handler and one action for each way the awaited backend call can settle. *)
(* Requests interleave at the awaits, as they do on Node's event loop.     *)
(***************************************************************************)
EXTENDS Integers, Sequences, FiniteSets, TLC

\* ---------------------------------------------------------------- bounds
NumKeys == 3        \* object keys / file names are 1..NumKeys
MaxKeys == 2        \* page size of one ListObjectsV2 response (1000 in S3)
MaxReq == 3         \* requests received in one behaviour
MaxInFlight == 2    \* requests being handled at the same time

Keys == 1..NumKeys
EmptyKey == 0       \* the empty string as :key
Bodies == {<<1>>, <<1, 2>>}
ReqIds == 1..MaxReq

VARIABLES
    serverUp,   \* the Node process is running
    bucket,     \* the S3 bucket: key -> object
    clock,      \* the backend's time, stamps LastModified
    uploads,    \* paths present in the staging directory 'uploads/'
    reqs,       \* request id -> the request, its handler's position, its response
    nreq        \* number of requests received so far

vars == <<serverUp, bucket, clock, uploads, reqs, nreq>>

\* ---------------------------------------------------------------- values
NoObject == [exists |-> FALSE, Body |-> <<>>, LastModified |-> 0]

Object(body, time) == [exists |-> TRUE, Body |-> body, LastModified |-> time]

NoData == [hasContents |-> FALSE, Contents |-> <<>>]

NoCommand == [Key |-> EmptyKey, Body |-> <<>>]

NoBody == [tag |-> "none", text |-> "", files |-> <<>>]

ErrorJson(t) == [tag |-> "error", text |-> t, files |-> <<>>]

MessageJson(t) == [tag |-> "message", text |-> t, files |-> <<>>]

ArrayJson(fs) == [tag |-> "array", text |-> "", files |-> fs]

HealthJson == [tag |-> "health", text |-> "healthy", files |-> <<>>]

\* body written by the framework's own error handler, not by a handler
FrameworkErrorPage == [tag |-> "html", text |-> "Internal Server Error", files |-> <<>>]

NoRequest ==
    [kind |-> "none", hasFile |-> FALSE, name |-> EmptyKey, content |-> <<>>,
     pc |-> "none", cmd |-> NoCommand, calls |-> 0, outcome |-> "none",
     fault |-> "none", data |-> NoData, status |-> 0, body |-> NoBody,
     at |-> 0, safe |-> FALSE, mustHave |-> {}, mustLack |-> {}]

InFlightPcs == {"multer", "awaitPut", "putResolved", "putRejected",
                "awaitList", "listResolved", "listRejected",
                "awaitDelete", "deleteResolved", "deleteRejected"}

InFlight(r) == reqs[r].pc \in InFlightPcs

Answered(r) == reqs[r].status # 0

\* ------------------------------------------------- the object-storage backend
Min(a, b) == IF a < b THEN a ELSE b

\* keys of the objects in b from k upwards, ascending (ListObjectsV2 order)
RECURSIVE KeysFrom(_, _)
KeysFrom(b, k) ==
    IF k > NumKeys THEN <<>>
    ELSE (IF b[k].exists THEN <<k>> ELSE <<>>) \o KeysFrom(b, k + 1)

\* one page of ListObjectsV2: at most MaxKeys entries; no continuation
\* token is ever sent (index.ts:99-101), so only the first page is seen
ListPage(b) ==
    LET ks == KeysFrom(b, 1)
    IN  [i \in 1..Min(MaxKeys, Len(ks)) |->
            [Key |-> ks[i], LastModified |-> b[ks[i]].LastModified,
             Size |-> Len(b[ks[i]].Body)]]

\* ---------------------------------------------------- the handlers' code
\* the guard of index.ts:61 left out
FileMissingNever(hasFile) == FALSE

\* index.ts:61  if (!req.file)
FileMissing(hasFile) == ~hasFile

\* index.ts:62
NoFileResponse == [status |-> 400, body |-> ErrorJson("No file uploaded")]

\* req.file as multer leaves it: the client's file name and the generated
\* staging path (one per request, here the request id)
File(r) == [originalname |-> reqs[r].name, path |-> r]

\* the generated staging name used as the key instead of the original name
PutObjectCommandGeneratedKey(file, fileContent) ==
    [Key |-> file.path, Body |-> fileContent]

\* index.ts:69-73  Key: req.file.originalname, Body: fileContent
PutObjectCommand(file, fileContent) ==
    [Key |-> file.originalname, Body |-> fileContent]

\* the unlink of index.ts:77 left out
StagingKept(dir, filePath) == dir

\* index.ts:77  unlinkSync(filePath) having returned
StagingAfterUpload(dir, filePath) == dir \ {filePath}

\* a catch branch that removes the staging file
StagingCleaned(dir, filePath) == dir \ {filePath}

\* index.ts:79-82  the catch branch touches no file
StagingAfterFailure(dir, filePath) == dir

\* index.ts:78
UploadOkResponse == [status |-> 200, body |-> MessageJson("File uploaded successfully")]

\* index.ts:81
UploadFailResponse == [status |-> 500, body |-> ErrorJson("Failed to upload file")]

\* index.ts:106-110
ProjectFile(file) ==
    [key |-> file.Key, lastModified |-> file.LastModified, size |-> file.Size]

\* the projection without the `|| []` fallback and one entry short
ListFilesShort(data) ==
    [i \in 1..(Len(data.Contents) - 1) |-> ProjectFile(data.Contents[i + 1])]

\* index.ts:105-110  data.Contents?.map(...) || []
ListFiles(data) ==
    IF data.hasContents
    THEN [i \in 1..Len(data.Contents) |-> ProjectFile(data.Contents[i])]
    ELSE <<>>

\* index.ts:112
ListOkResponse(files) == [status |-> 200, body |-> ArrayJson(files)]

\* index.ts:115
ListFailResponse == [status |-> 500, body |-> ErrorJson("Failed to retrieve file")]

\* the guard of index.ts:135 left out
KeyMissingNever(key) == FALSE

\* index.ts:135  if (!key)
KeyMissing(key) == key = EmptyKey

\* index.ts:136
NoKeyResponse == [status |-> 400, body |-> ErrorJson("File key is required")]

\* a delete command that names no key of the request
DeleteObjectCommandNoKey(key) == [Key |-> EmptyKey, Body |-> <<>>]

\* index.ts:140-143
DeleteObjectCommand(key) == [Key |-> key, Body |-> <<>>]

\* index.ts:147
DeleteOkResponse == [status |-> 200, body |-> MessageJson("File deleted successfully")]

\* index.ts:150
DeleteFailResponse == [status |-> 500, body |-> ErrorJson("Failed to delete file")]

\* index.ts:41
HealthResponse == [status |-> 200, body |-> HealthJson]

\* What becomes of an exception thrown by the async upload handler outside
\* its try block (index.ts:67).  The handler's promise rejects and nothing in
\* index.ts handles the rejection; what follows depends on the framework and
\* runtime the build resolves: the process exits on the unhandled rejection,
\* the rejection is only warned about and the request is never answered, or
\* the framework routes it to its default error handler.
RejectionOutcomes == {"exit", "hang", "framework"}

\* ------------------------------------------------------------ bookkeeping
\* History kept for the claims about what a later listing shows; the code
\* has no such state.  `at` is the backend time at which a put or a delete
\* was applied.  `safe` of an answered upload: no delete of its key
\* has been in flight since its put was applied.  `safe` of an answered
\* delete: no upload of its key has been in flight since the delete was
\* applied.  A listing records on arrival the keys such requests vouch for.
UploadsInFlight(k) ==
    {r \in ReqIds : reqs[r].kind = "upload" /\ reqs[r].hasFile
                    /\ reqs[r].name = k /\ InFlight(r)}

DeletesInFlight(k) ==
    {r \in ReqIds : reqs[r].kind = "delete" /\ reqs[r].name = k /\ InFlight(r)}

StoredKeys ==
    {k \in Keys : \E r \in ReqIds :
        /\ reqs[r].kind = "upload" /\ reqs[r].name = k
        /\ reqs[r].status = 200 /\ reqs[r].safe}

DeletedKeys ==
    {k \in Keys : \E r \in ReqIds :
        /\ reqs[r].kind = "delete" /\ reqs[r].name = k
        /\ reqs[r].status = 200 /\ reqs[r].safe}

\* the request table after a request of kind `kind` for key k has arrived
Disturb(kind, k) ==
    [r \in ReqIds |->
        IF reqs[r].kind = "list" /\ InFlight(r)
        THEN IF kind = "upload"
             THEN [reqs[r] EXCEPT !.mustLack = @ \ {k}]
             ELSE [reqs[r] EXCEPT !.mustHave = @ \ {k}]
        ELSE IF reqs[r].name = k /\ reqs[r].kind # kind
                /\ reqs[r].kind \in {"upload", "delete"}
             THEN [reqs[r] EXCEPT !.safe = FALSE]
             ELSE reqs[r]]

CanReceive ==
    /\ serverUp
    /\ nreq < MaxReq
    /\ Cardinality({r \in ReqIds : InFlight(r)}) < MaxInFlight

Respond(r, resp) ==
    [reqs[r] EXCEPT !.pc = "done", !.status = resp.status, !.body = resp.body]

\* ----------------------------------------------------------- POST /upload
\* A multipart request reaches the route; multer starts parsing it.
ReceiveUpload(hasFile, name, content) ==
    /\ CanReceive
    /\ nreq' = nreq + 1
    /\ reqs' = [(IF hasFile THEN Disturb("upload", name) ELSE reqs)
                    EXCEPT ![nreq + 1] =
                        [NoRequest EXCEPT !.kind = "upload", !.hasFile = hasFile,
                                          !.name = name, !.content = content,
                                          !.pc = "multer"]]
    /\ UNCHANGED <<serverUp, bucket, clock, uploads>>

\* index.ts:61-64: no file part, so multer stored nothing.
UploadNoFile(r) ==
    /\ serverUp
    /\ reqs[r].pc = "multer"
    /\ FileMissing(reqs[r].hasFile)
    /\ reqs' = [reqs EXCEPT ![r] = Respond(r, NoFileResponse)]
    /\ UNCHANGED <<serverUp, bucket, clock, uploads, nreq>>

\* multer has stored the part under a generated path (the request id), then
\* index.ts:66-76 up to the await: read the staging file, send the put.
UploadSend(r) ==
    /\ serverUp
    /\ reqs[r].pc = "multer"
    /\ ~FileMissing(reqs[r].hasFile)
    /\ uploads' = uploads \cup {File(r).path}
    /\ reqs' = [reqs EXCEPT ![r] =
                    [@ EXCEPT !.cmd = PutObjectCommand(File(r), reqs[r].content),
                              !.calls = @ + 1, !.pc = "awaitPut"]]
    /\ UNCHANGED <<serverUp, bucket, clock, nreq>>

\* index.ts:67 throws: readFileSync is outside the try block.
UploadReadThrows(r, outcome) ==
    /\ serverUp
    /\ reqs[r].pc = "multer"
    /\ ~FileMissing(reqs[r].hasFile)
    /\ uploads' = uploads \cup {File(r).path}
    /\ serverUp' = (outcome # "exit")
    /\ reqs' = [reqs EXCEPT ![r] =
                    IF outcome = "framework"
                    THEN [@ EXCEPT !.fault = "read", !.pc = "done", !.status = 500,
                                   !.body = FrameworkErrorPage]
                    ELSE [@ EXCEPT !.fault = "read", !.pc = "rejected"]]
    /\ UNCHANGED <<bucket, clock, nreq>>

\* The backend applies the put and the send resolves.
BackendPutOk(r) ==
    /\ reqs[r].pc = "awaitPut"
    /\ clock' = clock + 1
    /\ bucket' = IF reqs[r].cmd.Key \in Keys
                 THEN [bucket EXCEPT ![reqs[r].cmd.Key] =
                            Object(reqs[r].cmd.Body, clock + 1)]
                 ELSE bucket
    /\ reqs' = [reqs EXCEPT ![r] =
                    [@ EXCEPT !.outcome = "ok", !.pc = "putResolved", !.at = clock + 1,
                              !.safe = (DeletesInFlight(reqs[r].name) = {})]]
    /\ UNCHANGED <<serverUp, uploads, nreq>>

\* The send rejects; nothing is stored.
BackendPutFail(r) ==
    /\ reqs[r].pc = "awaitPut"
    /\ reqs' = [reqs EXCEPT ![r] = [@ EXCEPT !.outcome = "failed", !.pc = "putRejected"]]
    /\ UNCHANGED <<serverUp, bucket, clock, uploads, nreq>>

\* index.ts:77-78: the staging file is unlinked, success is answered.
UploadDone(r) ==
    /\ serverUp
    /\ reqs[r].pc = "putResolved"
    /\ uploads' = StagingAfterUpload(uploads, File(r).path)
    /\ reqs' = [reqs EXCEPT ![r] = Respond(r, UploadOkResponse)]
    /\ UNCHANGED <<serverUp, bucket, clock, nreq>>

\* index.ts:77 throws inside the try block: the catch branch answers.
UploadUnlinkThrows(r) ==
    /\ serverUp
    /\ reqs[r].pc = "putResolved"
    /\ uploads' = StagingAfterFailure(uploads, File(r).path)
    /\ reqs' = [reqs EXCEPT ![r] =
                    [Respond(r, UploadFailResponse) EXCEPT !.fault = "unlink"]]
    /\ UNCHANGED <<serverUp, bucket, clock, nreq>>

\* index.ts:79-82 after the send rejected.
UploadCatch(r) ==
    /\ serverUp
    /\ reqs[r].pc = "putRejected"
    /\ uploads' = StagingAfterFailure(uploads, File(r).path)
    /\ reqs' = [reqs EXCEPT ![r] = Respond(r, UploadFailResponse)]
    /\ UNCHANGED <<serverUp, bucket, clock, nreq>>

\* -------------------------------------------------------------- GET /files
\* index.ts:98-104 up to the await: send ListObjectsV2 for the bucket.
ReceiveList ==
    /\ CanReceive
    /\ nreq' = nreq + 1
    /\ reqs' = [reqs EXCEPT ![nreq + 1] =
                    [NoRequest EXCEPT !.kind = "list", !.calls = 1,
                                      !.pc = "awaitList",
                                      !.mustHave = StoredKeys,
                                      !.mustLack = DeletedKeys]]
    /\ UNCHANGED <<serverUp, bucket, clock, uploads>>

\* The backend answers with the first page; an empty bucket comes back
\* without Contents or (some S3-compatible stores) with an empty Contents.
BackendListOk(r, withContents) ==
    /\ reqs[r].pc = "awaitList"
    /\ withContents \/ ListPage(bucket) = <<>>
    /\ reqs' = [reqs EXCEPT ![r] =
                    [@ EXCEPT !.outcome = "ok", !.pc = "listResolved",
                              !.data = [hasContents |-> withContents,
                                        Contents |-> ListPage(bucket)]]]
    /\ UNCHANGED <<serverUp, bucket, clock, uploads, nreq>>

BackendListFail(r) ==
    /\ reqs[r].pc = "awaitList"
    /\ reqs' = [reqs EXCEPT ![r] = [@ EXCEPT !.outcome = "failed", !.pc = "listRejected"]]
    /\ UNCHANGED <<serverUp, bucket, clock, uploads, nreq>>

\* index.ts:105-112
ListDone(r) ==
    /\ serverUp
    /\ reqs[r].pc = "listResolved"
    /\ reqs' = [reqs EXCEPT ![r] = Respond(r, ListOkResponse(ListFiles(reqs[r].data)))]
    /\ UNCHANGED <<serverUp, bucket, clock, uploads, nreq>>

\* index.ts:113-116
ListCatch(r) ==
    /\ serverUp
    /\ reqs[r].pc = "listRejected"
    /\ reqs' = [reqs EXCEPT ![r] = Respond(r, ListFailResponse)]
    /\ UNCHANGED <<serverUp, bucket, clock, uploads, nreq>>

\* ------------------------------------------------------ DELETE /files/:key
\* index.ts:133-138: the key is missing.
DeleteNoKey(key) ==
    /\ CanReceive
    /\ KeyMissing(key)
    /\ nreq' = nreq + 1
    /\ reqs' = [reqs EXCEPT ![nreq + 1] =
                    [NoRequest EXCEPT !.kind = "delete", !.name = key, !.pc = "done",
                                      !.status = NoKeyResponse.status,
                                      !.body = NoKeyResponse.body]]
    /\ UNCHANGED <<serverUp, bucket, clock, uploads>>

\* index.ts:133-146 up to the await: send DeleteObject for the key.
ReceiveDelete(key) ==
    /\ CanReceive
    /\ ~KeyMissing(key)
    /\ nreq' = nreq + 1
    /\ reqs' = [Disturb("delete", key) EXCEPT ![nreq + 1] =
                    [NoRequest EXCEPT !.kind = "delete", !.name = key,
                                      !.cmd = DeleteObjectCommand(key),
                                      !.calls = 1, !.pc = "awaitDelete"]]
    /\ UNCHANGED <<serverUp, bucket, clock, uploads>>

\* The backend removes the object, if there is one, and the send resolves.
BackendDeleteOk(r) ==
    /\ reqs[r].pc = "awaitDelete"
    /\ bucket' = IF reqs[r].cmd.Key \in Keys
                 THEN [bucket EXCEPT ![reqs[r].cmd.Key] = NoObject]
                 ELSE bucket
    /\ reqs' = [reqs EXCEPT ![r] =
                    [@ EXCEPT !.outcome = "ok", !.pc = "deleteResolved", !.at = clock + 1,
                              !.safe = (UploadsInFlight(reqs[r].name) = {})]]
    /\ clock' = clock + 1
    /\ UNCHANGED <<serverUp, uploads, nreq>>

BackendDeleteFail(r) ==
    /\ reqs[r].pc = "awaitDelete"
    /\ reqs' = [reqs EXCEPT ![r] = [@ EXCEPT !.outcome = "failed", !.pc = "deleteRejected"]]
    /\ UNCHANGED <<serverUp, bucket, clock, uploads, nreq>>

\* index.ts:147
DeleteDone(r) ==
    /\ serverUp
    /\ reqs[r].pc = "deleteResolved"
    /\ reqs' = [reqs EXCEPT ![r] = Respond(r, DeleteOkResponse)]
    /\ UNCHANGED <<serverUp, bucket, clock, uploads, nreq>>

\* index.ts:148-151
DeleteCatch(r) ==
    /\ serverUp
    /\ reqs[r].pc = "deleteRejected"
    /\ reqs' = [reqs EXCEPT ![r] = Respond(r, DeleteFailResponse)]
    /\ UNCHANGED <<serverUp, bucket, clock, uploads, nreq>>

\* ------------------------------------------------------------- GET /health
\* index.ts:40-42 (the timestamp of the payload is not modelled)
Health ==
    /\ CanReceive
    /\ nreq' = nreq + 1
    /\ reqs' = [reqs EXCEPT ![nreq + 1] =
                    [NoRequest EXCEPT !.kind = "health", !.pc = "done",
                                      !.status = HealthResponse.status,
                                      !.body = HealthResponse.body]]
    /\ UNCHANGED <<serverUp, bucket, clock, uploads>>

\* ---------------------------------------------------------- specification
\* The process has started (index.ts:156); the bucket holds whatever it held
\* before, the staging directory is empty, no request has arrived.
Init ==
    /\ serverUp = TRUE
    /\ bucket \in [Keys -> {NoObject, Object(<<1>>, 0)}]
    /\ clock = 0
    /\ uploads = {}
    /\ reqs = [r \in ReqIds |-> NoRequest]
    /\ nreq = 0

Next ==
    \/ \E k \in Keys, c \in Bodies : ReceiveUpload(TRUE, k, c)
    \/ ReceiveUpload(FALSE, EmptyKey, <<>>)
    \/ ReceiveList
    \/ \E k \in Keys \cup {EmptyKey} : DeleteNoKey(k)
    \/ \E k \in Keys \cup {EmptyKey} : ReceiveDelete(k)
    \/ Health
    \/ \E r \in ReqIds :
        \/ UploadNoFile(r)
        \/ UploadSend(r)
        \/ \E o \in RejectionOutcomes : UploadReadThrows(r, o)
        \/ BackendPutOk(r)
        \/ BackendPutFail(r)
        \/ UploadDone(r)
        \/ UploadUnlinkThrows(r)
        \/ UploadCatch(r)
        \/ \E w \in BOOLEAN : BackendListOk(r, w)
        \/ BackendListFail(r)
        \/ ListDone(r)
        \/ ListCatch(r)
        \/ BackendDeleteOk(r)
        \/ BackendDeleteFail(r)
        \/ DeleteDone(r)
        \/ DeleteCatch(r)

Spec == Init /\ [][Next]_vars

TypeOK ==
    /\ serverUp \in BOOLEAN
    /\ nreq \in 0..MaxReq
    /\ uploads \subseteq ReqIds
    /\ \A r \in ReqIds : (reqs[r].kind = "none") <=> (r > nreq)

\* ================================================================ claims
ListedKeys(l) == {reqs[l].body.files[i].key : i \in 1..Len(reqs[l].body.files)}

ListOk(l) == reqs[l].kind = "list" /\ reqs[l].status = 200

\* C1 (as claimed): a GET /files that arrives after an upload was answered
\* with success, and is answered 200, lists the uploaded file's name, no
\* delete of that name having been in flight since the put was applied.
C1_ListShowsUploaded ==
    \A l \in ReqIds : ListOk(l) => reqs[l].mustHave \subseteq ListedKeys(l)

\* C2: a GET /files that arrives after DELETE /files/K was answered with
\* success, and is answered 200, has no entry with key K, no upload named K
\* having been in flight since the delete was applied.
C2_ListOmitsDeleted ==
    \A l \in ReqIds : ListOk(l) => reqs[l].mustLack \cap ListedKeys(l) = {}

\* an upload of K answered with success, then a delete of K answered with
\* success, then a listing answered 200 that had to omit K
C2_Witness ==
    \E u, d, l \in ReqIds :
        /\ u < d /\ d < l /\ ListOk(l)
        /\ reqs[u].kind = "upload" /\ reqs[u].status = 200
        /\ reqs[d].kind = "delete" /\ reqs[d].status = 200
        /\ reqs[d].name = reqs[u].name /\ reqs[u].at < reqs[d].at
        /\ reqs[d].name \in reqs[l].mustLack
        /\ reqs[l].body.files # <<>>

\* C3: an upload without a file part is answered, if at all, with 400 and
\* {error: "No file uploaded"}; it makes no backend call, and no step of it
\* changes the bucket or the staging directory.
C3_NoFileUpload ==
    [][\A r \in ReqIds :
        (reqs'[r].kind = "upload" /\ ~reqs'[r].hasFile) =>
            /\ reqs'[r].calls = 0
            /\ reqs'[r].pc \in {"multer", "done"}
            /\ reqs'[r].pc = "done" =>
                /\ reqs'[r].status = 400
                /\ reqs'[r].body = ErrorJson("No file uploaded")
            /\ reqs'[r] # reqs[r] => (bucket' = bucket /\ uploads' = uploads)]_vars

\* a file-less upload answered while the bucket holds objects and another
\* request is being handled
C3_Witness ==
    \E r, q \in ReqIds :
        /\ reqs[r].kind = "upload" /\ ~reqs[r].hasFile /\ reqs[r].status = 400
        /\ InFlight(q)
        /\ \E k \in Keys : bucket[k].exists

\* C4: a delete with an empty key is answered with 400 and
\* {error: "File key is required"}; it makes no backend call and its step
\* leaves the bucket unchanged.
C4_NoKeyDelete ==
    [][\A r \in ReqIds :
        (reqs'[r].kind = "delete" /\ reqs'[r].name = EmptyKey) =>
            /\ reqs'[r].calls = 0
            /\ reqs'[r].status = 400
            /\ reqs'[r].body = ErrorJson("File key is required")
            /\ reqs'[r] # reqs[r] => bucket' = bucket]_vars

C4_Witness ==
    \E r \in ReqIds :
        /\ reqs[r].kind = "delete" /\ reqs[r].name = EmptyKey /\ reqs[r].status = 400
        /\ \E k \in Keys : bucket[k].exists

\* C5: once an upload has been answered with "File uploaded successfully",
\* its staging file is not in the staging directory, then and ever after.
C5_StagingRemoved ==
    \A r \in ReqIds :
        (reqs[r].kind = "upload" /\ reqs[r].status = 200
            /\ reqs[r].body = MessageJson("File uploaded successfully"))
        => File(r).path \notin uploads

\* a successful upload answered while another upload's staging file exists
C5_Witness ==
    \E r \in ReqIds :
        /\ reqs[r].kind = "upload" /\ reqs[r].status = 200
        /\ uploads # {}

\* staging files whose request is over
Orphans == {r \in uploads : reqs[r].pc \in {"done", "rejected"}}

\* C6: an upload whose put failed is answered with 500 and
\* {error: "Failed to upload file"} after exactly one put, its staging file
\* stays on disk, and no step removes an orphaned staging file.
C6_FailedUploadLeaks ==
    [][/\ \A r \in ReqIds :
            (reqs'[r].kind = "upload" /\ reqs'[r].outcome = "failed") =>
                /\ reqs'[r].calls = 1
                /\ File(r).path \in uploads'
                /\ reqs'[r].pc \in {"putRejected", "done"}
                /\ reqs'[r].pc = "done" =>
                    /\ reqs'[r].status = 500
                    /\ reqs'[r].body = ErrorJson("Failed to upload file")
       /\ Orphans \subseteq Orphans']_vars

\* a failed upload's file still on disk after a later request was answered
C6_Witness ==
    \E r, q \in ReqIds :
        /\ r < q /\ Answered(q) /\ reqs[q].kind = "upload" /\ reqs[q].status = 200
        /\ reqs[r].kind = "upload" /\ reqs[r].outcome = "failed" /\ reqs[r].status = 500
        /\ r \in Orphans

\* C7: a listing whose backend call failed is answered with 500 and exactly
\* {error: "Failed to retrieve file"}; one whose call succeeded is answered
\* with 200 and an array holding, in order, the key, time and size of each
\* entry the backend returned, the empty array if it returned no contents.
C7_ListResponse ==
    \A l \in ReqIds :
        (reqs[l].kind = "list" /\ reqs[l].pc = "done") =>
            /\ reqs[l].outcome = "failed" =>
                /\ reqs[l].status = 500
                /\ reqs[l].body = ErrorJson("Failed to retrieve file")
            /\ reqs[l].outcome = "ok" =>
                LET got == IF reqs[l].data.hasContents
                           THEN reqs[l].data.Contents ELSE <<>>
                    out == reqs[l].body.files
                IN  /\ reqs[l].status = 200
                    /\ reqs[l].body.tag = "array"
                    /\ Len(out) = Len(got)
                    /\ \A i \in 1..Len(got) :
                        /\ out[i].key = got[i].Key
                        /\ out[i].lastModified = got[i].LastModified
                        /\ out[i].size = got[i].Size
            /\ reqs[l].outcome \in {"ok", "failed"}

\* a listing of two objects answered next to one whose call failed
C7_Witness ==
    \E l, m \in ReqIds :
        /\ ListOk(l) /\ Len(reqs[l].body.files) = 2
        /\ reqs[l].body.files[1].key < reqs[l].body.files[2].key
        /\ reqs[m].kind = "list" /\ reqs[m].status = 500

Failed(r) == reqs[r].fault # "none" \/ reqs[r].outcome = "failed"

\* C8 (as claimed): whatever step of whatever request has failed, the
\* server process is still running.
C8_ServerSurvives ==
    (\E r \in ReqIds : Failed(r)) => serverUp

\* C9 (as claimed): among the responses the handlers write, only a file-less
\* upload and a key-less delete are answered with 400, and only a request
\* whose own backend call failed is answered with 500; an upload whose put
\* succeeded is never answered with 500.
C9_ErrorTaxonomy ==
    \A r \in ReqIds :
        reqs[r].body # FrameworkErrorPage =>
            /\ reqs[r].status = 400 =>
                \/ reqs[r].kind = "upload" /\ ~reqs[r].hasFile
                \/ reqs[r].kind = "delete" /\ reqs[r].name = EmptyKey
            /\ reqs[r].status = 500 => reqs[r].outcome = "failed"

PutsOf(k) ==
    {r \in ReqIds : reqs[r].kind = "upload" /\ reqs[r].hasFile
                    /\ reqs[r].name = k /\ reqs[r].outcome = "ok"}

DeletesOf(k) ==
    {r \in ReqIds : reqs[r].kind = "delete" /\ reqs[r].name = k
                    /\ reqs[r].outcome = "ok"}

\* C10: every put is sent under the file's original name with the file's
\* content; the object under a name is the content of the put of that name
\* the backend applied last (unless a delete of it was applied later); an
\* upload whose put and unlink succeeded is answered with success whether
\* or not the key existed.
C10_LastPutWins ==
    /\ \A r \in ReqIds :
        (reqs[r].kind = "upload" /\ reqs[r].calls > 0) =>
            /\ reqs[r].cmd = [Key |-> reqs[r].name, Body |-> reqs[r].content]
            /\ (reqs[r].pc = "done" /\ reqs[r].outcome = "ok"
                    /\ reqs[r].fault = "none") => reqs[r].status = 200
    /\ \A k \in Keys : \A r \in PutsOf(k) :
        (/\ \A q \in PutsOf(k) : reqs[q].at <= reqs[r].at
         /\ \A d \in DeletesOf(k) : reqs[d].at < reqs[r].at)
        => /\ bucket[k].exists
           /\ bucket[k].Body = reqs[r].content
           /\ bucket[k].LastModified = reqs[r].at

\* two uploads of one name with different contents, both answered with
\* success, the put of the earlier request applied last
C10_Witness ==
    \E r, q \in ReqIds :
        /\ r < q /\ reqs[r].name = reqs[q].name
        /\ reqs[r].kind = "upload" /\ reqs[r].status = 200
        /\ reqs[q].kind = "upload" /\ reqs[q].status = 200
        /\ reqs[r].content # reqs[q].content
        /\ reqs[r].at > reqs[q].at
        /\ bucket[reqs[r].name].Body = reqs[r].content

====
